---- MODULE Spec2Model ----
(***************************************************************************)
(* litemongo: the Server / Database / Collection Store hierarchy and the   *)
(* persistent mappings of its three backends (h5py, pytables, sqlite).     *)
(*                                                                         *)
(* The physical medium (the HDF5 file, or the directory of sqlite files)   *)
(* is `disk`; the Python objects (DatabaseStore, CollectionStore and, for  *)
(* sqlite, the connection with its open transaction) are `db`.  One        *)
(* database name is used; a collection is operated on through the handle   *)
(* that the DatabaseStore caches under its name.                           *)
(***************************************************************************)
EXTENDS Integers, Sequences, FiniteSets, TLC

VARIABLES backend, disk, db, last, file, paths, it, threads

vars == <<backend, disk, db, last, file, paths, it, threads>>

\* What the operations of a CollectionStore leave alone: the ServerStore's
\* file handle, the directories, the iterators and the threads.
side == <<file, paths, it, threads>>

(***************************************************************************)
(* Inputs.                                                                 *)
(***************************************************************************)
Backends == {"h5py", "pytables", "sqlite"}

ColNames == {"a", "b"}

\* Caller identifiers: the empty string, a single space and a string
\* holding a single quote.
CallerKeys == {"", " ", "o'k"}

\* Caller identifiers and index names that hold a single quote character.
KeysWithQuote == {"o'k", "o'x"}

\* Documents: one without the field t, and one whose t is a date that has
\* aged out under every TTL index on t.
Docs == {[v |-> 1], [v |-> 2, t |-> "aged"]}

\* Index names: a plain one, and one holding a single quote.
IndexNames == {"by_x", "o'x"}

\* The documents and index descriptors the medium holds at one time.
MaxRows == 2

None == "None"

Tuple(items) == [kind |-> "tuple", items |-> items]

List(items) == [kind |-> "list", items |-> items]

\* Index descriptors as the caller passes them: `key` is a list of tuples.
PlainIndex == [key |-> <<Tuple(<<"x", 1>>)>>, expireAfterSeconds |-> None]

TtlIndex == [key |-> <<Tuple(<<"t", 1>>)>>, expireAfterSeconds |-> "0"]

IndexDicts == {PlainIndex, TtlIndex}

(***************************************************************************)
(* Codec.                                                                  *)
(***************************************************************************)
IsIndexDict(val) == "key" \in DOMAIN val

\* bson.encode: a tuple is written as a BSON array.
bson_encode(val) ==
    [bson |-> IF IsIndexDict(val)
              THEN [val EXCEPT !.key = [i \in DOMAIN val.key |-> List(val.key[i].items)]]
              ELSE val]

\* bson.decode: a BSON array is read back as a list.
bson_decode(encoded) == encoded.bson

_encode_doc(b, doc) ==
    IF b = "h5py" THEN [uint8 |-> bson_encode(doc)] ELSE bson_encode(doc)

_decode_doc(b, dataset) ==
    IF b = "h5py" THEN bson_decode(dataset.uint8) ELSE bson_decode(dataset)

\* IndexDict._decode_doc: list(map(tuple, index_dict['key'])).
IndexDict_decode_doc(b, dataset) ==
    LET index_dict == _decode_doc(b, dataset)
    IN  [index_dict EXCEPT !.key = [i \in DOMAIN index_dict.key |-> Tuple(index_dict.key[i].items)]]

\* The sentinel of each CollectionStore class ("".encode("utf16") is the
\* two-byte byte-order mark; it is written here as the text FFFE).
EMPTY_UTF16(b) == IF b = "h5py" THEN "FFFE" ELSE " "

_encode_key(b, key) ==
    IF b = "sqlite" THEN key
    ELSE IF key = "" THEN EMPTY_UTF16(b) ELSE key

(***************************************************************************)
(* A mapping on the medium: the rows of a table, or the children of a      *)
(* group, in physical order.                                               *)
(***************************************************************************)
Ids(rows) == {rows[i].id : i \in DOMAIN rows}

Lookup(rows, id) == rows[CHOOSE i \in DOMAIN rows : rows[i].id = id].doc

RemoveRow(rows, id) == SelectSeq(rows, LAMBDA r : r.id # id)

\* INSERT ... ON CONFLICT DO UPDATE, and h5py's reuse of the dataset:
\* an existing entry keeps its place.
UpsertRow(rows, id, doc) ==
    IF id \in Ids(rows)
    THEN [i \in DOMAIN rows |-> IF rows[i].id = id THEN [id |-> id, doc |-> doc] ELSE rows[i]]
    ELSE Append(rows, [id |-> id, doc |-> doc])

\* pytables: remove_node, then new_node.
ReplaceRow(rows, id, doc) == Append(RemoveRow(rows, id), [id |-> id, doc |-> doc])

(***************************************************************************)
(* State.                                                                  *)
(*                                                                         *)
(* disk[p] is what the medium holds at collection path p: for h5py and     *)
(* pytables the group p with its documents, indexes, ttl_indexes groups    *)
(* and its is_force_created dataset; for sqlite the committed tables of    *)
(* the file p.                                                             *)
(*                                                                         *)
(* db is the DatabaseStore object in use: db.collections is its cache      *)
(* of CollectionStore objects.  A CollectionStore refers to its group or   *)
(* file by path; for sqlite it also holds _is_force_created, _ttl_indexes  *)
(* and the tables as its connection sees them (committed rows and the      *)
(* changes of its open transaction).                                       *)
(***************************************************************************)
NONE == "<none>"

DETACHED == "<detached>"

EmptyColl ==
    [exists |-> FALSE, documents |-> <<>>, indexes |-> <<>>,
     ttl_indexes |-> <<>>, is_force_created |-> FALSE]

NoColl ==
    [path |-> NONE, _is_force_created |-> FALSE, _ttl_indexes |-> <<>>,
     documents |-> <<>>, indexes |-> <<>>]

NoCollections == [c \in ColNames |-> NoColl]

NoValue == [none |-> TRUE]

Bool(x) == [bool |-> x]

Result(kind, value) == [kind |-> kind, value |-> value]

Ok(value) == Result("ok", value)

Raise(kind) == Result(kind, NoValue)

Call(op, col, key, res) == [op |-> op, col |-> col, key |-> key, res |-> res]

Cached(c) == db.open /\ db.collections[c].path # NONE

\* The CollectionStore cached under c still refers to a group or file that exists.
Attached(c) == Cached(c) /\ db.collections[c].path \in ColNames

Handle(c) == db.collections[c]

(***************************************************************************)
(* What a CollectionStore reads.                                           *)
(***************************************************************************)
DocumentsOf(h) == IF backend = "sqlite" THEN h.documents ELSE disk[h.path].documents

IndexesOf(h) == IF backend = "sqlite" THEN h.indexes ELSE disk[h.path].indexes

TtlIndexesOf(h) == IF backend = "sqlite" THEN h._ttl_indexes ELSE disk[h.path].ttl_indexes

ForceCreatedOf(h) ==
    IF backend = "sqlite" THEN h._is_force_created ELSE disk[h.path].is_force_created

\* The text `where _id='{key}'`: a quote in the key ends the literal early
\* and the statement does not parse.
SqlWhereParses(key) == key \notin KeysWithQuote

\* __contains__ that looks the caller's key up as it is.
Contains_without_encode_key(rows, key) ==
    IF backend = "sqlite" /\ ~SqlWhereParses(key) THEN Raise("OperationalError")
    ELSE Ok(Bool(key \in Ids(rows)))

\* __contains__
Contains(rows, key) ==
    IF backend = "sqlite" /\ ~SqlWhereParses(key) THEN Raise("OperationalError")
    ELSE Ok(Bool(_encode_key(backend, key) \in Ids(rows)))

\* __getitem__ of the document mapping
GetItem(rows, key) ==
    IF backend = "sqlite" /\ ~SqlWhereParses(key) THEN Raise("OperationalError")
    ELSE IF _encode_key(backend, key) \notin Ids(rows) THEN Raise("KeyError")
    ELSE Ok(_decode_doc(backend, Lookup(rows, _encode_key(backend, key))))

\* __getitem__ of the index mapping
IndexGetItem(rows, name) ==
    IF backend = "sqlite" /\ ~SqlWhereParses(name) THEN Raise("OperationalError")
    ELSE IF name \notin Ids(rows) THEN Raise("KeyError")
    ELSE Ok(IndexDict_decode_doc(backend, Lookup(rows, name)))

\* __len__
LenOf(rows) == Len(rows)

\* __iter__ / keys(): the stored identifiers, in physical order (sqlite:
\* ORDER BY ROWID).
KeysOf(rows) == [i \in DOMAIN rows |-> rows[i].id]

\* values()
ValuesOf(rows) == [i \in DOMAIN rows |-> _decode_doc(backend, rows[i].doc)]

\* is_created without the index mapping.
is_created_without_indexes(h) == LenOf(DocumentsOf(h)) > 0 \/ ForceCreatedOf(h)

\* CollectionStore.is_created
is_created(h) == LenOf(DocumentsOf(h)) > 0 \/ LenOf(IndexesOf(h)) > 0 \/ ForceCreatedOf(h)

\* DatabaseStore.is_created
db_is_created(d) == \E c \in ColNames : d.collections[c].path # NONE /\ is_created(d.collections[c])

\* DatabaseStore.__contains__
db_contains(c) == IF ~Cached(c) THEN FALSE ELSE is_created(Handle(c))

\* The names of the cache, created or not.
list_cached_collection_names == {c \in ColNames : Cached(c)}

\* DatabaseStore.list_created_collection_names
list_created_collection_names ==
    {c \in ColNames : Cached(c) /\ is_created(Handle(c))}

\* The one database name in use.
DbName == "db1"

\* ServerStore.__contains__: `self[db_name].is_created`, where sqlite's
\* self[db_name] is the cached DatabaseStore (or a new one) and h5py's and
\* pytables' is always a new DatabaseStore, whose cache is empty.
server_contains ==
    IF backend = "sqlite" THEN db.open /\ db_is_created(db)
    ELSE db_is_created([open |-> TRUE, collections |-> NoCollections])

\* ServerStore.list_created_database_names: sqlite goes through its cache;
\* h5py asks a new DatabaseStore for every group of the file; pytables
\* iterates the File, which yields nodes and not names, and self[node] raises.
list_created_database_names ==
    IF backend = "sqlite"
    THEN Ok([names |-> {n \in {DbName} : db.open /\ db_is_created(db)}])
    ELSE IF backend = "h5py"
    THEN Ok([names |-> {n \in {DbName} : db_is_created([open |-> TRUE, collections |-> NoCollections])}])
    ELSE Raise("TypeError")

(***************************************************************************)
(* Construction.                                                           *)
(***************************************************************************)
\* The threads of the caller, none of them inside a call.
Threads == {"t1", "t2"}

\* pc: where each thread is inside a call, col: the collection of that call,
\* got: the CollectionStore the thread's last db[col] returned; made: how many
\* CollectionStores have been constructed for a name, cached: which of them
\* the DatabaseStore's cache holds.
NoThreads ==
    [pc |-> [t \in Threads |-> "idle"],
     col |-> [t \in Threads |-> NONE],
     got |-> [t \in Threads |-> 0],
     made |-> [c \in ColNames |-> 0],
     cached |-> [c \in ColNames |-> 0]]

\* The directories of a sqlite ServerStore that has been constructed: its
\* own, and that of the database, which the first access makes.
ServerPaths == [server |-> "dir", db |-> "absent"]

\* No sequence of documents has been obtained.
NoIter == [col |-> NONE, state |-> "none"]

Init ==
    /\ backend \in Backends
    /\ disk = [p \in ColNames |-> EmptyColl]
    /\ db = [open |-> FALSE, collections |-> NoCollections]
    /\ last = Call("init", NONE, NONE, Ok(NoValue))
    /\ file = "open"
    /\ paths = ServerPaths
    /\ it = NoIter
    /\ threads = NoThreads

\* CollectionStore.__init__ on path p: sqlite opens a connection (open()
\* creates both tables and commits); h5py and pytables get or create the
\* groups and the is_force_created dataset.
NewCollectionStore(p) ==
    IF backend = "sqlite"
    THEN [path |-> p, _is_force_created |-> FALSE, _ttl_indexes |-> <<>>,
          documents |-> disk[p].documents, indexes |-> disk[p].indexes]
    ELSE [NoColl EXCEPT !.path = p]

\* sqlite: the open connection of h is closed and opened again on path p of
\* medium d; what its transaction had not committed is gone.
Reopened(h, d, p) ==
    [h EXCEPT !.path = p, !.documents = d[p].documents, !.indexes = d[p].indexes]

\* sqlite: `with self._connection` commits the transaction of h.
Committed(d, h) ==
    [d EXCEPT ![h.path] = [@ EXCEPT !.documents = h.documents, !.indexes = h.indexes]]

(***************************************************************************)
(* ServerStore.                                                            *)
(***************************************************************************)
\* ServerStore.__getitem__: sqlite returns the cached DatabaseStore, or
\* builds one (DatabaseStore.__init__ raises ValueError when its path is
\* there and is no directory, and makes the directory when it is missing);
\* h5py and pytables build a new DatabaseStore (with an empty cache) every
\* time.
ServerGetItem ==
    /\ file = "open"
    /\ IF backend = "sqlite" /\ ~db.open /\ paths.db = "file"
       THEN /\ last' = Call("server[]", NONE, NONE, Raise("ValueError"))
            /\ UNCHANGED <<db, paths>>
       ELSE /\ db' = IF backend = "sqlite" /\ db.open
                     THEN db
                     ELSE [open |-> TRUE, collections |-> NoCollections]
            /\ paths' = IF backend = "sqlite" THEN [paths EXCEPT !.db = "dir"] ELSE paths
            /\ last' = Call("server[]", NONE, NONE, Ok(NoValue))
    /\ UNCHANGED <<backend, disk, file, it, threads>>

\* The ServerStore is closed and a new one is opened on the same location:
\* every Python object is gone, the medium stays.
Reopen ==
    /\ db.open \/ file = "closed"
    /\ db' = [open |-> FALSE, collections |-> NoCollections]
    /\ file' = "open"
    /\ last' = Call("reopen", NONE, NONE, Ok(NoValue))
    /\ UNCHANGED <<backend, disk, paths, it, threads>>

(***************************************************************************)
(* DatabaseStore.                                                          *)
(***************************************************************************)
\* CollectionStore.__init__ fails: pytables' create_array on a group that
\* already holds is_force_created raises NodeError, which is no ValueError
\* (h5py's create_dataset raises ValueError there, which __init__ passes over).
InitRaises(p) == backend = "pytables" /\ disk[p].exists

\* DatabaseStore.__getitem__
DbGetItem(c) ==
    /\ db.open
    /\ IF Cached(c)
       THEN /\ last' = Call("db[]", c, NONE, Ok(NoValue))
            /\ UNCHANGED <<disk, db>>
       ELSE IF InitRaises(c)
       THEN /\ last' = Call("db[]", c, NONE, Raise("NodeError"))
            /\ UNCHANGED <<disk, db>>
       ELSE /\ disk' = [disk EXCEPT ![c].exists = TRUE]
            /\ db' = [db EXCEPT !.collections[c] = NewCollectionStore(c)]
            /\ last' = Call("db[]", c, NONE, Ok(NoValue))
    /\ UNCHANGED <<backend, side>>

(***************************************************************************)
(* The document mapping, through the CollectionStore cached under c.       *)
(***************************************************************************)
\* The rows of both mappings of every collection on the medium.
RECURSIVE StoredRows(_)
StoredRows(cols) ==
    IF cols = {} THEN 0
    ELSE LET c == CHOOSE x \in cols : TRUE
         IN  Len(disk[c].documents) + Len(disk[c].indexes) + StoredRows(cols \ {c})

\* The medium has room for the write of id into the mapping `rows` of h:
\* counted are the entries it holds once the write is done (sqlite commits
\* what the connection of h sees).
Room(h, rows, id) ==
    StoredRows(ColNames \ {h.path}) + Len(DocumentsOf(h)) + Len(IndexesOf(h))
        + (IF id \in Ids(rows) THEN 0 ELSE 1) <= MaxRows

\* __setitem__ that removes the entry and writes it anew on every backend.
SetItemRows_replacing(rows, id, val) == ReplaceRow(rows, id, _encode_doc(backend, val))

\* __setitem__
SetItemRows(rows, id, val) ==
    IF backend = "pytables"
    THEN ReplaceRow(rows, id, _encode_doc(backend, val))
    ELSE UpsertRow(rows, id, _encode_doc(backend, val))

SetItem(c, key, val) ==
    /\ Attached(c)
    /\ Room(Handle(c), DocumentsOf(Handle(c)), _encode_key(backend, key))
    /\ LET h == Handle(c)
           rows == SetItemRows(DocumentsOf(h), _encode_key(backend, key), val)
       IN  IF backend = "sqlite"
           THEN LET h2 == [h EXCEPT !.documents = rows]
                IN  /\ db' = [db EXCEPT !.collections[c] = h2]
                    /\ disk' = Committed(disk, h2)
           ELSE /\ disk' = [disk EXCEPT ![h.path].documents = rows]
                /\ UNCHANGED db
    /\ last' = Call("set", c, key, Ok(val))
    /\ UNCHANGED <<backend, side>>

\* __delitem__: what it raises, or ok.
DelItemResult(rows, key) ==
    IF backend = "sqlite" /\ ~SqlWhereParses(key) THEN Raise("OperationalError")
    ELSE IF _encode_key(backend, key) \notin Ids(rows) THEN Raise("KeyError")
    ELSE Ok(NoValue)

\* __delitem__: the rows it leaves (sqlite: in the open transaction).
DelItemRows(rows, key) ==
    IF DelItemResult(rows, key).kind = "ok"
    THEN RemoveRow(rows, _encode_key(backend, key))
    ELSE rows

DelItem(c, key) ==
    /\ Attached(c)
    /\ LET h == Handle(c)
           rows == DelItemRows(DocumentsOf(h), key)
       IN  /\ IF backend = "sqlite"
              THEN /\ db' = [db EXCEPT !.collections[c].documents = rows]
                   /\ UNCHANGED disk
              ELSE /\ disk' = [disk EXCEPT ![h.path].documents = rows]
                   /\ UNCHANGED db
           /\ last' = Call("delete", c, key, DelItemResult(DocumentsOf(h), key))
    /\ UNCHANGED <<backend, side>>

(***************************************************************************)
(* CollectionStore lifecycle and indexes.                                  *)
(***************************************************************************)
\* create() that leaves the flag as it is.
Create_without_flag(c) ==
    /\ Attached(c)
    /\ disk' = [disk EXCEPT ![Handle(c).path].exists = TRUE]
    /\ last' = Call("create", c, NONE, Ok(NoValue))
    /\ UNCHANGED <<backend, db, side>>

\* create()
Create(c) ==
    /\ Attached(c)
    /\ IF backend = "sqlite"
       THEN /\ db' = [db EXCEPT !.collections[c]._is_force_created = TRUE]
            /\ disk' = [disk EXCEPT ![Handle(c).path].exists = TRUE]
       ELSE /\ disk' = [disk EXCEPT ![Handle(c).path].is_force_created = TRUE]
            /\ UNCHANGED db
    /\ last' = Call("create", c, NONE, Ok(NoValue))
    /\ UNCHANGED <<backend, side>>

\* drop() that does not clear the TTL indexes.
Drop_keeping_ttl_indexes(c) ==
    /\ Attached(c)
    /\ disk' = [disk EXCEPT ![Handle(c).path] =
                   [EmptyColl EXCEPT !.exists = TRUE, !.ttl_indexes = disk[Handle(c).path].ttl_indexes]]
    /\ db' = IF backend = "sqlite"
             THEN [db EXCEPT !.collections[c] =
                      [path |-> Handle(c).path, _is_force_created |-> FALSE,
                       _ttl_indexes |-> Handle(c)._ttl_indexes,
                       documents |-> <<>>, indexes |-> <<>>]]
             ELSE db
    /\ last' = Call("drop", c, NONE, Ok(NoValue))
    /\ UNCHANGED <<backend, side>>

\* drop() whose sqlite form does not open the connection again.
Drop_without_open(c) ==
    /\ Attached(c)
    /\ disk' = [disk EXCEPT ![Handle(c).path] =
                   IF backend = "sqlite" THEN EmptyColl ELSE [EmptyColl EXCEPT !.exists = TRUE]]
    /\ db' = IF backend = "sqlite"
             THEN [db EXCEPT !.collections[c] = [NoColl EXCEPT !.path = DETACHED]]
             ELSE db
    /\ last' = Call("drop", c, NONE, Ok(NoValue))
    /\ UNCHANGED <<backend, side>>

\* drop(): sqlite closes, unlinks the file, clears _ttl_indexes and the flag
\* and opens again; h5py and pytables clear the three groups and the flag.
Drop(c) ==
    /\ Attached(c)
    /\ disk' = [disk EXCEPT ![Handle(c).path] = [EmptyColl EXCEPT !.exists = TRUE]]
    /\ db' = IF backend = "sqlite"
             THEN [db EXCEPT !.collections[c] =
                      [path |-> Handle(c).path, _is_force_created |-> FALSE,
                       _ttl_indexes |-> <<>>, documents |-> <<>>, indexes |-> <<>>]]
             ELSE db
    /\ last' = Call("drop", c, NONE, Ok(NoValue))
    /\ UNCHANGED <<backend, side>>

\* The _ttl_indexes entry written by create_index: sqlite keeps the dict
\* itself, h5py and pytables write it through a GroupDict.
TtlSetRows(rows, name, index_dict) ==
    IF backend = "sqlite"
    THEN UpsertRow(rows, name, index_dict)
    ELSE SetItemRows(rows, name, index_dict)

\* create_index(index_name, index_dict)
CreateIndex(c, name, index_dict) ==
    /\ Attached(c)
    /\ Room(Handle(c), IndexesOf(Handle(c)), name)
    /\ LET h == Handle(c)
           idx == SetItemRows(IndexesOf(h), name, index_dict)
           ttl == IF index_dict.expireAfterSeconds # None
                  THEN TtlSetRows(TtlIndexesOf(h), name, index_dict)
                  ELSE TtlIndexesOf(h)
       IN  IF backend = "sqlite"
           THEN LET h2 == [h EXCEPT !.indexes = idx, !._ttl_indexes = ttl]
                IN  /\ db' = [db EXCEPT !.collections[c] = h2]
                    /\ disk' = Committed(disk, h2)
           ELSE /\ disk' = [disk EXCEPT ![h.path].indexes = idx, ![h.path].ttl_indexes = ttl]
                /\ UNCHANGED db
    /\ last' = Call("create_index", c, name, Ok(index_dict))
    /\ UNCHANGED <<backend, side>>

\* The values of _ttl_indexes as _remove_expired_documents reads them.
TtlValues(rows) ==
    [i \in DOMAIN rows |-> IF backend = "sqlite" THEN rows[i].doc
                           ELSE _decode_doc(backend, rows[i].doc)]

\* A document has aged out under a TTL index on a single field.
Expired(doc, index) ==
    /\ Len(index.key) = 1
    /\ index.key[1].items[1] \in DOMAIN doc
    /\ doc[index.key[1].items[1]] = "aged"

\* _remove_expired_documents: the documents it leaves.
RemoveExpired(rows, ttl) ==
    SelectSeq(rows, LAMBDA r :
        ~ \E i \in DOMAIN ttl : Expired(_decode_doc(backend, r.doc), TtlValues(ttl)[i]))

\* `del self.indexes[index_name]`: what it raises, or ok.
DelIndexResult(rows, name) ==
    IF backend = "sqlite" /\ ~SqlWhereParses(name) THEN Raise("OperationalError")
    ELSE IF name \notin Ids(rows) THEN Raise("KeyError")
    ELSE Ok(NoValue)

\* drop_index(index_name): the sweep, then `del self.indexes[index_name]`
\* (which may raise), then `_ttl_indexes.pop(index_name, None)`.
DropIndex(c, name) ==
    /\ Attached(c)
    /\ LET h == Handle(c)
           docs == RemoveExpired(DocumentsOf(h), TtlIndexesOf(h))
           found == DelIndexResult(IndexesOf(h), name).kind = "ok"
           idx == IF found THEN RemoveRow(IndexesOf(h), name) ELSE IndexesOf(h)
           ttl == IF found THEN RemoveRow(TtlIndexesOf(h), name) ELSE TtlIndexesOf(h)
       IN  /\ IF backend = "sqlite"
              THEN /\ db' = [db EXCEPT !.collections[c] =
                                [h EXCEPT !.documents = docs, !.indexes = idx, !._ttl_indexes = ttl]]
                   /\ UNCHANGED disk
              ELSE /\ disk' = [disk EXCEPT ![h.path] =
                                [@ EXCEPT !.documents = docs, !.indexes = idx, !.ttl_indexes = ttl]]
                   /\ UNCHANGED db
           /\ last' = Call("drop_index", c, name, DelIndexResult(IndexesOf(h), name))
    /\ UNCHANGED <<backend, side>>

(***************************************************************************)
(* DatabaseStore.rename(name, new_name).                                   *)
(***************************************************************************)
\* Every cached CollectionStore that refers to path `from` now refers to `to`.
Repath(cols, from, to) ==
    [c \in ColNames |-> IF cols[c].path = from THEN [cols[c] EXCEPT !.path = to] ELSE cols[c]]

\* `self._collections[new_name] = self._collections[name]`, without the pop.
Rekey_keeping_old(cols, name, new_name) ==
    [c \in ColNames |-> IF c = new_name THEN cols[name] ELSE cols[c]]

\* `self._collections[new_name] = self._collections.pop(name)`
Rekey(cols, name, new_name) ==
    [c \in ColNames |-> IF c = new_name THEN cols[name]
                        ELSE IF c = name THEN NoColl ELSE cols[c]]

\* The medium after the entry at `from` has taken the place of `to`.
Moved(d, from, to) ==
    IF from = to THEN d ELSE [d EXCEPT ![to] = d[from], ![from] = EmptyColl]

\* sqlite: pop(name) (KeyError when not cached), then CollectionStore.rename:
\* close(), Path.rename (which replaces an existing file), open().
RenameSqlite(name, new_name) ==
    IF ~Cached(name)
    THEN /\ last' = Call("rename", name, new_name, Raise("KeyError"))
         /\ UNCHANGED <<disk, db>>
    ELSE LET d2 == Moved(disk, Handle(name).path, new_name)
             cols == [db.collections EXCEPT ![name] = Reopened(@, d2, new_name)]
         IN  /\ disk' = d2
             /\ db' = [db EXCEPT !.collections = Rekey(cols, name, new_name)]
             /\ last' = Call("rename", name, new_name, Ok(NoValue))

\* h5py: an existing group at new_name is deleted, then Group.move (which
\* fails when there is no group at name), then the cache is re-keyed
\* (KeyError when name is not cached).
RenameH5py(name, new_name) ==
    LET d1 == IF disk[new_name].exists THEN [disk EXCEPT ![new_name] = EmptyColl] ELSE disk
        c1 == IF disk[new_name].exists THEN Repath(db.collections, new_name, DETACHED)
              ELSE db.collections
    IN  IF ~d1[name].exists
        THEN /\ disk' = d1
             /\ db' = [db EXCEPT !.collections = c1]
             /\ last' = Call("rename", name, new_name, Raise("MoveError"))
        ELSE LET d2 == Moved(d1, name, new_name)
                 c2 == Repath(c1, name, new_name)
             IN  /\ disk' = d2
                 /\ IF c2[name].path = NONE
                    THEN /\ db' = [db EXCEPT !.collections = c2]
                         /\ last' = Call("rename", name, new_name, Raise("KeyError"))
                    ELSE /\ db' = [db EXCEPT !.collections = Rekey(c2, name, new_name)]
                         /\ last' = Call("rename", name, new_name, Ok(NoValue))

\* pytables: get_node (NoSuchNodeError when there is no group at name), then
\* _f_move with overwrite=True (nothing to do when the node is already in
\* place), then the cache is re-keyed (KeyError when name is not cached).
RenamePytables(name, new_name) ==
    IF ~disk[name].exists
    THEN /\ last' = Call("rename", name, new_name, Raise("NoSuchNodeError"))
         /\ UNCHANGED <<disk, db>>
    ELSE LET c1 == IF name # new_name /\ disk[new_name].exists
                   THEN Repath(db.collections, new_name, DETACHED)
                   ELSE db.collections
             c2 == Repath(c1, name, new_name)
         IN  /\ disk' = Moved(disk, name, new_name)
             /\ IF c2[name].path = NONE
                THEN /\ db' = [db EXCEPT !.collections = c2]
                     /\ last' = Call("rename", name, new_name, Raise("KeyError"))
                ELSE /\ db' = [db EXCEPT !.collections = Rekey(c2, name, new_name)]
                     /\ last' = Call("rename", name, new_name, Ok(NoValue))

Rename(name, new_name) ==
    /\ db.open
    /\ IF backend = "sqlite" THEN RenameSqlite(name, new_name)
       ELSE IF backend = "h5py" THEN RenameH5py(name, new_name)
       ELSE RenamePytables(name, new_name)
    /\ UNCHANGED <<backend, side>>

(***************************************************************************)
(* The program.                                                            *)
(***************************************************************************)
Next ==
    \/ ServerGetItem
    \/ Reopen
    \/ \E c \in ColNames : DbGetItem(c)
    \/ \E c \in ColNames, key \in CallerKeys, val \in Docs : SetItem(c, key, val)
    \/ \E c \in ColNames, key \in CallerKeys : DelItem(c, key)
    \/ \E c \in ColNames : Create(c)
    \/ \E c \in ColNames : Drop(c)
    \/ \E c \in ColNames, name \in IndexNames, index_dict \in IndexDicts : CreateIndex(c, name, index_dict)
    \/ \E c \in ColNames, name \in IndexNames : DropIndex(c, name)
    \/ \E name \in ColNames, new_name \in ColNames : Rename(name, new_name)

Spec == Init /\ [][Next]_vars

(***************************************************************************)
(* What a caller observes through the CollectionStore cached under c.      *)
(***************************************************************************)
get(c, key) == GetItem(DocumentsOf(Handle(c)), key)

contains(c, key) == Contains(DocumentsOf(Handle(c)), key)

len(c) == LenOf(DocumentsOf(Handle(c)))

\* The stored entry of the document mapping that the caller's key addresses.
Stored(c, key) == _encode_key(backend, key) \in Ids(DocumentsOf(Handle(c)))

\* The step just taken is this call on the CollectionStore cached under c.
Did(op, c) == last.op = op /\ last.col = c

(***************************************************************************)
(* C1.  After set(k, D), get(k) returns a value equal to D and contains(k) *)
(* is true, on every backend and for every key and document, and this      *)
(* stays so across later set and delete calls on other keys.               *)
(***************************************************************************)
C1_SetThenGet ==
    [][\A c \in ColNames, k \in CallerKeys, d \in Docs :
        /\ (Did("set", c)' /\ last'.key = k /\ last'.res = Ok(d))
              => get(c, k)' = Ok(d) /\ contains(c, k)' = Ok(Bool(TRUE))
        /\ (/\ Attached(c) /\ get(c, k) = Ok(d) /\ contains(c, k) = Ok(Bool(TRUE))
            /\ (Did("set", c)' \/ Did("delete", c)') /\ last'.key # k)
              => get(c, k)' = Ok(d) /\ contains(c, k)' = Ok(Bool(TRUE))]_vars

(***************************************************************************)
(* C2.  delete(k) after set(k, D): get(k) then fails with KeyError,        *)
(* contains(k) is false and len() is one less; and the call that follows   *)
(* the delete on that CollectionStore (which a rename moves to its new     *)
(* name), unless it sets k again, still finds k absent.                    *)
(***************************************************************************)
Absent(c, k) == get(c, k) = Raise("KeyError") /\ contains(c, k) = Ok(Bool(FALSE))

Deleted(c, k) == Did("delete", c) /\ last.key = k /\ last.res.kind = "ok"

C2_DeleteThenAbsent ==
    [][\A c \in ColNames, k \in CallerKeys :
        /\ (Attached(c) /\ Stored(c, k) /\ Did("delete", c)' /\ last'.key = k)
              => Absent(c, k)' /\ len(c)' = len(c) - 1
        /\ (/\ Deleted(c, k) /\ Attached(c)'
            /\ last'.op # "rename"
            /\ ~(Did("set", c)' /\ last'.key = k))
              => Absent(c, k)'
        /\ \A c2 \in ColNames :
              (/\ Deleted(c, k)
               /\ Did("rename", c)' /\ last'.key = c2 /\ last'.res.kind = "ok")
              => Absent(c2, k)']_vars

(***************************************************************************)
(* C3.  get(k) and delete(k) on a key that the mapping does not hold fail  *)
(* with KeyError, and the failed call leaves the mapping as it was.        *)
(***************************************************************************)
C3_AbsentKeyRaisesKeyError ==
    \A c \in ColNames, k \in CallerKeys :
        (Attached(c) /\ ~Stored(c, k))
          => /\ get(c, k) = Raise("KeyError")
             /\ DelItemResult(DocumentsOf(Handle(c)), k) = Raise("KeyError")
             /\ DelItemRows(DocumentsOf(Handle(c)), k) = DocumentsOf(Handle(c))

(***************************************************************************)
(* C4.  set(k, D) is an upsert: it adds exactly the entry k when k is      *)
(* absent (len() grows by one), replaces the value at k when k is present  *)
(* (len() unchanged), and leaves the value under every other key as it     *)
(* was.                                                                    *)
(***************************************************************************)
C4_SetIsUpsert ==
    [][\A c \in ColNames, k \in CallerKeys :
        (Attached(c) /\ Did("set", c)' /\ last'.key = k)
          => /\ len(c)' = IF contains(c, k) = Ok(Bool(TRUE)) THEN len(c) ELSE len(c) + 1
             /\ \A k2 \in CallerKeys \ {k} : get(c, k2)' = get(c, k2)]_vars

(***************************************************************************)
(* C5.  In every reachable state, is_created of a CollectionStore is true  *)
(* exactly when its document mapping is non-empty, or its index mapping    *)
(* is non-empty, or its force-created flag is set.                         *)
(***************************************************************************)
C5_IsCreatedInvariant ==
    \A c \in ColNames :
        Attached(c)
          => (is_created(Handle(c))
                <=> \/ DocumentsOf(Handle(c)) # <<>>
                    \/ IndexesOf(Handle(c)) # <<>>
                    \/ ForceCreatedOf(Handle(c)) = TRUE)

\* A store that is created by an index alone.
C5_Witness ==
    \E c \in ColNames :
        /\ Attached(c) /\ is_created(Handle(c))
        /\ DocumentsOf(Handle(c)) = <<>> /\ ~ForceCreatedOf(Handle(c))

(***************************************************************************)
(* C6.  A CollectionStore obtained for a name that was never written       *)
(* reports is_created false; from a store that is not created, each of     *)
(* create(), set(k, D) and create_index(name, descriptor) makes is_created *)
(* true in the next state.                                                 *)
(***************************************************************************)
NeverWritten(p) ==
    /\ disk[p].documents = <<>> /\ disk[p].indexes = <<>>
    /\ disk[p].ttl_indexes = <<>> /\ ~disk[p].is_force_created

C6_CreatedByFirstWrite ==
    [][\A c \in ColNames :
        /\ (db.open /\ ~Cached(c) /\ NeverWritten(c) /\ Did("db[]", c)' /\ last'.res.kind = "ok")
              => Attached(c)' /\ ~is_created(Handle(c))'
        /\ (/\ Attached(c) /\ ~is_created(Handle(c))
            /\ (Did("create", c)' \/ Did("set", c)' \/ Did("create_index", c)'))
              => is_created(Handle(c))']_vars

\* create() has just made a store with no documents and no indexes created.
C6_Witness ==
    \E c \in ColNames :
        /\ Did("create", c) /\ Attached(c) /\ is_created(Handle(c))
        /\ DocumentsOf(Handle(c)) = <<>> /\ IndexesOf(Handle(c)) = <<>>

(***************************************************************************)
(* C7.  Get-or-create access alone creates nothing: across a server[db]    *)
(* or db[coll] access, every is_created, contains and list_created_*_names *)
(* result at collection, database and server level is what it was before.  *)
(***************************************************************************)
\* No cached CollectionStore has lost its group.
NoDetached == \A c \in ColNames : Cached(c) => Attached(c)

\* `db[c].is_created`: of the cached CollectionStore, or of the one that
\* the access would build.
coll_is_created(c) ==
    IF Cached(c) THEN Ok(Bool(is_created(Handle(c))))
    ELSE IF InitRaises(c) THEN Raise("NodeError")
    ELSE Ok(Bool(is_created(NewCollectionStore(c))))

ServerObserved ==
    [contains |-> server_contains, names |-> list_created_database_names]

DbObserved ==
    [contains |-> [c \in ColNames |-> db_contains(c)],
     names |-> list_created_collection_names,
     is_created |-> db_is_created(db)]

C7_AccessCreatesNothing ==
    [][(NoDetached /\ (last'.op = "server[]" \/ last'.op = "db[]"))
        => /\ ServerObserved' = ServerObserved
           /\ \A c \in ColNames : coll_is_created(c)' = coll_is_created(c)
           /\ (last'.op = "db[]" \/ (backend = "sqlite" /\ db.open))
                 => DbObserved' = DbObserved]_vars

(***************************************************************************)
(* C8.  After drop() returns, the document mapping, the index mapping and  *)
(* the TTL-index set are empty, the force-created flag is false and        *)
(* is_created is false.                                                    *)
(***************************************************************************)
C8_DropClearsEverything ==
    \A c \in ColNames :
        Did("drop", c)
          => /\ Attached(c)
             /\ DocumentsOf(Handle(c)) = <<>>
             /\ IndexesOf(Handle(c)) = <<>>
             /\ TtlIndexesOf(Handle(c)) = <<>>
             /\ ForceCreatedOf(Handle(c)) = FALSE
             /\ ~is_created(Handle(c))

\* drop() has acted while the other collection keeps what it holds.
C8_Witness ==
    \E c \in ColNames, c2 \in ColNames :
        /\ Did("drop", c) /\ ~is_created(Handle(c))
        /\ c2 # c /\ Attached(c2) /\ is_created(Handle(c2))

(***************************************************************************)
(* C9.  The same CollectionStore stays usable after drop(): it is open     *)
(* and in the state of a store newly obtained on an empty medium, so a     *)
(* set(k, D), create_index or further drop() issued next acts as on a new  *)
(* store (the mapping then holds exactly that entry and is_created is      *)
(* true again).                                                            *)
(***************************************************************************)
FreshMedium == [EmptyColl EXCEPT !.exists = TRUE]

IsFreshStore(c) ==
    /\ Attached(c)
    /\ disk[Handle(c).path] = FreshMedium
    /\ Handle(c) = NewCollectionStore(Handle(c).path)

C9_UsableAfterDrop ==
    [][\A c \in ColNames :
        Did("drop", c)
          => /\ IsFreshStore(c)
             /\ \A k \in CallerKeys, d \in Docs :
                   (Did("set", c)' /\ last'.key = k /\ last'.res = Ok(d))
                     => /\ DocumentsOf(Handle(c))' =
                             <<[id |-> _encode_key(backend, k), doc |-> _encode_doc(backend, d)]>>
                        /\ is_created(Handle(c))'
             /\ \A n \in IndexNames, x \in IndexDicts :
                   (Did("create_index", c)' /\ last'.key = n /\ last'.res = Ok(x))
                     => /\ IndexesOf(Handle(c))' = <<[id |-> n, doc |-> _encode_doc(backend, x)]>>
                        /\ is_created(Handle(c))'
             /\ Did("drop", c)' => IsFreshStore(c)']_vars

\* drop() has acted on a sqlite store, which closes its connection and
\* opens it again.
C9_Witness ==
    \E c \in ColNames : Did("drop", c) /\ IsFreshStore(c) /\ backend = "sqlite"

(***************************************************************************)
(* C10.  Database rename(old, new) loses and adds nothing: right after a   *)
(* successful rename the documents and index descriptors readable at new   *)
(* are exactly those readable at old right before it, and old is no longer *)
(* contained in or listed by the database.                                 *)
(***************************************************************************)
ReadableDocuments(c) ==
    {[id |-> r.id, doc |-> _decode_doc(backend, r.doc)] :
        r \in {DocumentsOf(Handle(c))[i] : i \in DOMAIN DocumentsOf(Handle(c))}}

ReadableIndexes(c) ==
    {[id |-> r.id, doc |-> IndexDict_decode_doc(backend, r.doc)] :
        r \in {IndexesOf(Handle(c))[i] : i \in DOMAIN IndexesOf(Handle(c))}}

C10_RenameKeepsContent ==
    [][\A old \in ColNames, new \in ColNames :
        (/\ new # old /\ Attached(old)
         /\ Did("rename", old)' /\ last'.key = new /\ last'.res.kind = "ok")
          => /\ Attached(new)'
             /\ ReadableDocuments(new)' = ReadableDocuments(old)
             /\ ReadableIndexes(new)' = ReadableIndexes(old)
             /\ len(new)' = len(old)
             /\ \A k \in CallerKeys : get(new, k)' = get(old, k) /\ contains(new, k)' = contains(old, k)
             /\ ~db_contains(old)'
             /\ old \notin list_created_collection_names']_vars

(***************************************************************************)
(* C11.  drop() and rename(old, new) are atomic on failure: a call that    *)
(* raises leaves the content at the source and at the target name, and     *)
(* the DatabaseStore's cache with every CollectionStore in it, exactly as  *)
(* they were before the call.                                              *)
(***************************************************************************)
C11_FailureIsAtomic ==
    [][((last'.op = "rename" \/ last'.op = "drop") /\ last'.res.kind # "ok")
        => disk' = disk /\ db' = db]_vars

(***************************************************************************)
(* C12.  In every reachable state a name is in the TTL-index set of a      *)
(* CollectionStore exactly when its index mapping holds a descriptor under *)
(* that name whose expireAfterSeconds is present.                          *)
(***************************************************************************)
\* The index mapping of h holds a TTL descriptor under name.
HoldsTtlDescriptor(h, name) ==
    /\ name \in Ids(IndexesOf(h))
    /\ IndexDict_decode_doc(backend, Lookup(IndexesOf(h), name)).expireAfterSeconds # None

C12_TtlSetInSync ==
    \A c \in ColNames :
        Attached(c)
          => \A name \in IndexNames :
                name \in Ids(TtlIndexesOf(Handle(c))) <=> HoldsTtlDescriptor(Handle(c), name)

(***************************************************************************)
(* C13.  drop_index(name): when name is in the index mapping it is removed *)
(* from the index mapping and from the TTL-index set, all other entries of *)
(* both staying as they were; when it is not, the call raises KeyError and *)
(* both are unchanged.                                                     *)
(***************************************************************************)
C13_DropIndex ==
    [][\A c \in ColNames, name \in IndexNames :
        (Attached(c) /\ Did("drop_index", c)' /\ last'.key = name)
          => IF name \in Ids(IndexesOf(Handle(c)))
             THEN /\ last'.res = Ok(NoValue)
                  /\ IndexesOf(Handle(c))' = RemoveRow(IndexesOf(Handle(c)), name)
                  /\ TtlIndexesOf(Handle(c))' = RemoveRow(TtlIndexesOf(Handle(c)), name)
             ELSE /\ last'.res = Raise("KeyError")
                  /\ IndexesOf(Handle(c))' = IndexesOf(Handle(c))
                  /\ TtlIndexesOf(Handle(c))' = TtlIndexesOf(Handle(c))]_vars

(***************************************************************************)
(* C14.  drop_index(name) of a TTL index that the index mapping holds      *)
(* sweeps first: once it has returned, the document mapping holds no       *)
(* document that had aged out under that index, through whichever          *)
(* CollectionStore the collection is reached.                              *)
(***************************************************************************)
\* The documents of h that have aged out under the descriptor stored as name.
AgedOut(h, name) ==
    {i \in DOMAIN DocumentsOf(h) :
        Expired(_decode_doc(backend, DocumentsOf(h)[i].doc),
                IndexDict_decode_doc(backend, Lookup(IndexesOf(h), name)))}

C14_DropIndexSweeps ==
    [][\A c \in ColNames, name \in IndexNames :
        (/\ Attached(c) /\ HoldsTtlDescriptor(Handle(c), name)
         /\ Did("drop_index", c)' /\ last'.key = name /\ last'.res.kind = "ok")
          => \A i \in AgedOut(Handle(c), name) :
                DocumentsOf(Handle(c))[i].id \notin Ids(DocumentsOf(Handle(c))')]_vars

(***************************************************************************)
(* C15.  Index round trip: after create_index(name, descriptor), reading   *)
(* indexes[name] gives a descriptor whose key is the same (field,          *)
(* direction) pairs in the same order, each of them a tuple and none a     *)
(* list.                                                                   *)
(***************************************************************************)
C15_IndexRoundTrip ==
    [][\A c \in ColNames, name \in IndexNames, index_dict \in IndexDicts :
        (Did("create_index", c)' /\ last'.key = name /\ last'.res = Ok(index_dict))
          => LET read == IndexGetItem(IndexesOf(Handle(c)), name)'
             IN  /\ read.kind = "ok"
                 /\ read.value.key = index_dict.key
                 /\ \A i \in DOMAIN read.value.key : read.value.key[i].kind = "tuple"]_vars

C17_ContainsIsIsCreated ==
    \A c \in ColNames :
        (db.open /\ (~Cached(c) \/ Attached(c)) /\ coll_is_created(c).kind = "ok")
          => Ok(Bool(db_contains(c))) = coll_is_created(c)

(***************************************************************************)
(* C18.  list_created_collection_names() is exactly the set of names that  *)
(* are in the DatabaseStore's cache and whose CollectionStore holds a      *)
(* document, an index or the force-created flag; a name that a rename has  *)
(* just moved away is not in it.                                           *)
(***************************************************************************)
C18_ListCreatedCollectionNames ==
    NoDetached
      => /\ list_created_collection_names =
               {c \in ColNames : /\ Cached(c)
                                 /\ \/ DocumentsOf(Handle(c)) # <<>>
                                    \/ IndexesOf(Handle(c)) # <<>>
                                    \/ ForceCreatedOf(Handle(c))}
         /\ (last.op = "rename" /\ last.res.kind = "ok" /\ last.col # last.key)
               => last.col \notin list_created_collection_names

\* The cache holds a created and a not created CollectionStore.
C18_Witness ==
    /\ NoDetached
    /\ \E c \in ColNames, c2 \in ColNames :
          /\ c \in list_created_collection_names
          /\ Cached(c2) /\ c2 \notin list_created_collection_names

(***************************************************************************)
(* C19.  After a successful DatabaseStore rename(old, new) the cache has   *)
(* no entry for old, its entry for new is the CollectionStore that was     *)
(* cached under old (whatever was cached under new before), and every      *)
(* other entry is unchanged.                                               *)
(***************************************************************************)
\* h2 is the CollectionStore object h, whose group or file (unless it had
\* lost it) is now at path p.
SameHandle(h, h2, p) ==
    /\ h2.path = IF h.path = DETACHED THEN DETACHED ELSE p
    /\ h2._is_force_created = h._is_force_created
    /\ h2._ttl_indexes = h._ttl_indexes

C20_AccessIsCached ==
    [][/\ (db.open /\ last'.op = "server[]") => db' = db
       /\ \A c \in ColNames : (Cached(c) /\ Did("db[]", c)') => db' = db]_vars

(***************************************************************************)
(* C21.  Server-level existence follows the database-level rule: once a    *)
(* collection was created with create() and holds one document, the        *)
(* database is contained in the server and is listed by                    *)
(* list_created_database_names() whenever that returns; and while no       *)
(* collection holds a document, an index or the flag, the database is      *)
(* neither contained nor listed.                                           *)
(***************************************************************************)
\* No collection of the database is created, on the medium or in a store.
NothingCreated ==
    /\ \A p \in ColNames : NeverWritten(p)
    /\ \A c \in ColNames : Attached(c) => ~is_created(Handle(c))

\* The names that list_created_database_names() returns, when it returns.
ListedDatabases ==
    IF list_created_database_names.kind = "ok"
    THEN list_created_database_names.value.names
    ELSE {}

C21_ServerLevelExistence ==
    /\ \A c \in ColNames :
          (/\ Did("set", c) /\ Attached(c)
           /\ ForceCreatedOf(Handle(c)) /\ len(c) = 1)
            => /\ server_contains
               /\ list_created_database_names.kind = "ok" => DbName \in ListedDatabases
    /\ (NoDetached /\ NothingCreated)
          => ~server_contains /\ ListedDatabases = {}

C26_SqliteDurable ==
    \A c \in ColNames :
        (/\ backend = "sqlite" /\ Attached(c)
         /\ (Did("set", c) \/ Did("delete", c)) /\ last.res.kind = "ok")
          => disk[Handle(c).path].documents = Handle(c).documents

(***************************************************************************)
(* C29.  Key encoding is injective: two distinct caller identifiers never  *)
(* address the same stored entry, so set(k1, D1) on an empty mapping       *)
(* followed by set(k2, D2), k1 # k2, leaves two entries, the one of k1     *)
(* holding D1.                                                             *)
(***************************************************************************)
C29_KeyEncodingInjective ==
    [][\A c \in ColNames, k1 \in CallerKeys, k2 \in CallerKeys, d1 \in Docs :
        (/\ k1 # k2
         /\ Did("set", c) /\ last.key = k1 /\ last.res = Ok(d1) /\ len(c) = 1
         /\ Did("set", c)' /\ last'.key = k2)
          => /\ _encode_key(backend, k1) # _encode_key(backend, k2)
             /\ len(c)' = 2
             /\ (_decode_doc(backend, Lookup(DocumentsOf(Handle(c)), _encode_key(backend, k1))))' = d1]_vars

(***************************************************************************)
(* Closing the store.  h5py and pytables close the file, which is a no-op  *)
(* on a file that is closed already (the libraries check that it is open), *)
(* and every group and array obtained from it becomes invalid; sqlite's    *)
(* ServerStore.close does nothing.  last.key holds the state of the file   *)
(* that the call found.                                                    *)
(***************************************************************************)
\* close() that closes the file without looking whether it is open.
ServerClose_raising_when_closed(op) ==
    /\ file' = IF backend = "sqlite" THEN file ELSE "closed"
    /\ db' = IF backend = "sqlite" THEN db ELSE [open |-> FALSE, collections |-> NoCollections]
    /\ last' = Call(op, NONE, file, IF file = "closed" THEN Raise("ValueError") ELSE Ok(NoValue))
    /\ UNCHANGED <<backend, disk, paths, it, threads>>

\* ServerStore.close
ServerClose(op) ==
    /\ file' = IF backend = "sqlite" THEN file ELSE "closed"
    /\ db' = IF backend = "sqlite" THEN db ELSE [open |-> FALSE, collections |-> NoCollections]
    /\ last' = Call(op, NONE, file, Ok(NoValue))
    /\ UNCHANGED <<backend, disk, paths, it, threads>>

Close == ServerClose("close")

\* MongoClient.close: the base class's close, which holds no resource, and
\* then the store's.
ClientClose == ServerClose("client.close")

NextClose ==
    \/ ServerGetItem
    \/ Reopen
    \/ Close
    \/ ClientClose
    \/ \E c \in ColNames : DbGetItem(c)
    \/ \E c \in ColNames, key \in CallerKeys, val \in Docs : SetItem(c, key, val)
    \/ \E c \in ColNames, key \in CallerKeys : DelItem(c, key)
    \/ \E c \in ColNames : Create(c)

SpecClose == Init /\ [][NextClose]_vars

Closes == {"close", "client.close"}

PathKinds ==
    { [server |-> "absent", db |-> "absent"],
      [server |-> "file", db |-> "absent"],
      [server |-> "dir", db |-> "absent"],
      [server |-> "dir", db |-> "dir"],
      [server |-> "dir", db |-> "file"] }

InitPath ==
    /\ backend = "sqlite"
    /\ disk = [p \in ColNames |-> EmptyColl]
    /\ db = [open |-> FALSE, collections |-> NoCollections]
    /\ last = Call("init", NONE, NONE, Ok(NoValue))
    /\ file = "none"
    /\ paths \in PathKinds
    /\ it = NoIter
    /\ threads = NoThreads

\* ServerStore.__init__ that makes its directory whatever is there.
NewServerStore_over_file ==
    /\ file = "none"
    /\ file' = "open"
    /\ paths' = [paths EXCEPT !.server = "dir"]
    /\ last' = Call("ServerStore", NONE, NONE, Ok(NoValue))
    /\ UNCHANGED <<backend, disk, db, it, threads>>

\* ServerStore.__init__
NewServerStore ==
    /\ file = "none"
    /\ IF paths.server = "file"
       THEN /\ last' = Call("ServerStore", NONE, NONE, Raise("ValueError"))
            /\ UNCHANGED <<file, paths>>
       ELSE /\ file' = "open"
            /\ paths' = [paths EXCEPT !.server = "dir"]
            /\ last' = Call("ServerStore", NONE, NONE, Ok(NoValue))
    /\ UNCHANGED <<backend, disk, db, it, threads>>

NextPath ==
    \/ NewServerStore
    \/ ServerGetItem
    \/ \E c \in ColNames : DbGetItem(c)
    \/ \E c \in ColNames, key \in CallerKeys, val \in Docs : SetItem(c, key, val)
    \/ \E c \in ColNames : Create(c)

SpecPath == InitPath /\ [][NextPath]_vars

(***************************************************************************)
(* C28.  sqlite: constructing a ServerStore, or accessing a database,      *)
(* whose path is there and is no directory raises ValueError and changes   *)
(* nothing: not the paths, not the content, and the database is not        *)
(* cached, so the next access to it fails alike.                           *)
(***************************************************************************)
C28_PathConflict ==
    [][/\ (last'.op = "ServerStore" /\ paths.server = "file")
            => /\ last'.res = Raise("ValueError")
               /\ UNCHANGED <<file, paths, disk, db>>
       /\ (last'.op = "server[]" /\ backend = "sqlite" /\ paths.db = "file")
            => /\ last'.res = Raise("ValueError")
               /\ ~db'.open
               /\ UNCHANGED <<file, paths, disk, db>>]_vars

\* The access to a database whose path is a file has raised.
C28_Witness ==
    /\ backend = "sqlite"
    /\ last = Call("server[]", NONE, NONE, Raise("ValueError"))
    /\ paths.db = "file" /\ ~db.open /\ file = "open"

(***************************************************************************)
(* Iterating the documents.  sqlite's `documents` is a generator function  *)
(* (`yield from self._documents.values()`, and TableDict.values is one     *)
(* too): the object it returns runs its SELECT when it is first advanced,  *)
(* and is exhausted after one traversal.  h5py and pytables inherit        *)
(* `documents` from the base class, which is not part of the source; there *)
(* the sequence is taken to be restartable.                                *)
(***************************************************************************)
Values(seq) == [values |-> seq]

\* seq = coll.documents
Documents(c) ==
    /\ Attached(c)
    /\ it' = [col |-> c, state |-> "fresh"]
    /\ last' = Call("documents", c, NONE, Ok(NoValue))
    /\ UNCHANGED <<backend, disk, db, file, paths, threads>>

\* list(seq)
Traverse ==
    /\ it.state # "none"
    /\ Attached(it.col)
    /\ LET yielded == IF backend = "sqlite" /\ it.state = "done"
                      THEN <<>>
                      ELSE ValuesOf(DocumentsOf(Handle(it.col)))
       IN  last' = Call("traverse", it.col, NONE, Ok(Values(yielded)))
    /\ it' = [it EXCEPT !.state = "done"]
    /\ UNCHANGED <<backend, disk, db, file, paths, threads>>

NextIter ==
    \/ ServerGetItem
    \/ Traverse
    \/ \E c \in ColNames : DbGetItem(c)
    \/ \E c \in ColNames : Documents(c)
    \/ \E c \in ColNames, key \in CallerKeys, val \in Docs : SetItem(c, key, val)
    \/ \E c \in ColNames, key \in CallerKeys : DelItem(c, key)

SpecIter == Init /\ [][NextIter]_vars

(***************************************************************************)
(* C24.  Every traversal of a sequence of documents yields the values      *)
(* present when that traversal runs, whatever was present when the         *)
(* sequence was obtained and however often it was traversed before.        *)
(***************************************************************************)
C24_IterationIsLive ==
    [][last'.op = "traverse"
          => last'.res = Ok(Values(ValuesOf(DocumentsOf(Handle(it.col)))))]_vars

(***************************************************************************)
(* Evaluating is_created.  h5py and pytables look at `self._documents`;    *)
(* sqlite asks `self.is_empty`, the base class's property, which removes   *)
(* the expired documents (through the connection, without commit) before   *)
(* it looks whether any is left.                                           *)
(***************************************************************************)
\* The CollectionStore h after is_empty has run.
Swept(h) ==
    IF backend = "sqlite"
    THEN [h EXCEPT !.documents = RemoveExpired(DocumentsOf(h), TtlIndexesOf(h))]
    ELSE h

Query(op, c) ==
    /\ Attached(c)
    /\ db' = [db EXCEPT !.collections[c] = Swept(Handle(c))]
    /\ last' = Call(op, c, NONE, Ok(Bool(is_created(Swept(Handle(c))))))
    /\ UNCHANGED <<backend, disk, side>>

\* coll.is_created
IsCreated(c) == Query("is_created", c)

\* DatabaseStore.__contains__ for a name that is cached.
DbContains(c) == Query("db.contains", c)

NextQuery ==
    \/ ServerGetItem
    \/ \E c \in ColNames : DbGetItem(c)
    \/ \E c \in ColNames : IsCreated(c)
    \/ \E c \in ColNames : DbContains(c)
    \/ \E c \in ColNames, key \in CallerKeys, val \in Docs : SetItem(c, key, val)
    \/ \E c \in ColNames, name \in IndexNames, index_dict \in IndexDicts : CreateIndex(c, name, index_dict)

SpecQuery == Init /\ [][NextQuery]_vars

Queries == {"is_created", "db.contains"}

(***************************************************************************)
(* C27.  is_created is a pure query: evaluating it, also through the       *)
(* DatabaseStore's contains, leaves the document mapping, the index        *)
(* mapping, the TTL indexes and the force-created flag of the collection   *)
(* as they were, TTL indexes and aged documents or not.                    *)
(***************************************************************************)
C27_IsCreatedIsPure ==
    [][\A c \in ColNames :
        (last'.op \in Queries /\ last'.col = c)
          => /\ DocumentsOf(Handle(c))' = DocumentsOf(Handle(c))
             /\ IndexesOf(Handle(c))' = IndexesOf(Handle(c))
             /\ TtlIndexesOf(Handle(c))' = TtlIndexesOf(Handle(c))
             /\ ForceCreatedOf(Handle(c))' = ForceCreatedOf(Handle(c))
             /\ disk' = disk]_vars

(***************************************************************************)
(* Several threads.  A CollectionStore constructs an RWLock (`_rwlock`)    *)
(* and none of the methods of the three backends acquires it: drop, rename,*)
(* create, create_index, drop_index, is_created, and sqlite's __len__ and  *)
(* documents run their statements one after the other with nothing held,   *)
(* so another thread's call can run in between.  drop(c) is taken in its   *)
(* statements: sqlite close(), unlink(), the two resets, open(); h5py and  *)
(* pytables _documents.clear(), indexes.clear(), _ttl_indexes.clear(),     *)
(* _is_force_created = False.                                              *)
(***************************************************************************)
Quiet == \A t \in Threads : threads.pc[t] = "idle"

\* Some thread is between two statements of a call on collection c.
Inside(c) == \E t \in Threads : threads.pc[t] # "idle" /\ threads.col[t] = c

Number(n) == [number |-> n]

At(t, pc, c) == [threads EXCEPT !.pc[t] = pc, !.col[t] = c]

DropBegin(t, c) ==
    /\ threads.pc[t] = "idle" /\ Attached(c) /\ ~Inside(c)
    /\ IF backend = "sqlite"
       THEN /\ db' = [db EXCEPT !.collections[c] = Reopened(Handle(c), disk, Handle(c).path)]
            /\ UNCHANGED disk
       ELSE /\ disk' = [disk EXCEPT ![Handle(c).path].documents = <<>>]
            /\ UNCHANGED db
    /\ threads' = At(t, "drop.1", c)
    /\ last' = Call("drop.1", c, NONE, Ok(NoValue))
    /\ UNCHANGED <<backend, file, paths, it>>

DropStep2(t) ==
    /\ threads.pc[t] = "drop.1"
    /\ LET c == threads.col[t]
       IN  /\ disk' = IF backend = "sqlite"
                      THEN [disk EXCEPT ![Handle(c).path] = EmptyColl]
                      ELSE [disk EXCEPT ![Handle(c).path].indexes = <<>>]
           /\ threads' = At(t, "drop.2", c)
           /\ last' = Call("drop.2", c, NONE, Ok(NoValue))
    /\ UNCHANGED <<backend, db, file, paths, it>>

DropStep3(t) ==
    /\ threads.pc[t] = "drop.2"
    /\ LET c == threads.col[t]
       IN  /\ IF backend = "sqlite"
              THEN /\ db' = [db EXCEPT !.collections[c]._ttl_indexes = <<>>,
                                       !.collections[c]._is_force_created = FALSE]
                   /\ UNCHANGED disk
              ELSE /\ disk' = [disk EXCEPT ![Handle(c).path].ttl_indexes = <<>>]
                   /\ UNCHANGED db
           /\ threads' = At(t, "drop.3", c)
           /\ last' = Call("drop.3", c, NONE, Ok(NoValue))
    /\ UNCHANGED <<backend, file, paths, it>>

DropEnd(t) ==
    /\ threads.pc[t] = "drop.3"
    /\ LET c == threads.col[t]
       IN  /\ IF backend = "sqlite"
              THEN /\ disk' = [disk EXCEPT ![Handle(c).path].exists = TRUE]
                   /\ db' = [db EXCEPT !.collections[c] = Reopened(Handle(c), disk, Handle(c).path)]
              ELSE /\ disk' = [disk EXCEPT ![Handle(c).path].is_force_created = FALSE]
                   /\ UNCHANGED db
           /\ threads' = At(t, "idle", c)
           /\ last' = Call("drop", c, NONE, Ok(NoValue))
    /\ UNCHANGED <<backend, file, paths, it>>

\* A read by thread t: sqlite len(coll), which is len(self._documents), and
\* _documents is None between close() and open(); h5py and pytables
\* coll.is_created.
Read(t, c) ==
    /\ threads.pc[t] = "idle" /\ Attached(c)
    /\ last' = Call("read", c, NONE,
                    IF backend # "sqlite" THEN Ok(Bool(is_created(Handle(c))))
                    ELSE IF Inside(c) THEN Raise("TypeError")
                    ELSE Ok(Number(LenOf(DocumentsOf(Handle(c))))))
    /\ UNCHANGED <<backend, disk, db, side>>

NextLocks ==
    \/ ~db.open /\ ServerGetItem
    \/ \E c \in ColNames : Quiet /\ DbGetItem(c)
    \/ \E c \in ColNames, key \in CallerKeys, val \in Docs : Quiet /\ SetItem(c, key, val)
    \/ \E c \in ColNames : Quiet /\ Create(c)
    \/ \E t \in Threads, c \in ColNames : DropBegin(t, c)
    \/ \E t \in Threads : DropStep2(t)
    \/ \E t \in Threads : DropStep3(t)
    \/ \E t \in Threads : DropEnd(t)
    \/ \E t \in Threads, c \in ColNames : Read(t, c)

SpecLocks == Init /\ [][NextLocks]_vars

(***************************************************************************)
(* C23.  Reads and mutations of a collection exclude each other: no read   *)
(* of a collection runs while another thread is between two statements of  *)
(* a mutating operation on it, such as between the close and the open      *)
(* inside drop.                                                            *)
(***************************************************************************)
C23_ReadsExcludeWrites ==
    [][\A c \in ColNames : (last'.op = "read" /\ last'.col = c) => ~Inside(c)]_vars

(***************************************************************************)
(* db[c] by several threads.  sqlite: `if col_name not in                  *)
(* self._collections`, then construct and assign, then `return             *)
(* self._collections[col_name]`; h5py and pytables: try the cache, on      *)
(* KeyError construct, assign and return the one constructed.  Nothing is  *)
(* held between the look-up and the assignment.                            *)
(***************************************************************************)
\* The look-up.
GetCheck(t, c) ==
    /\ db.open /\ threads.pc[t] = "idle"
    /\ IF Cached(c)
       THEN /\ threads' = [threads EXCEPT !.col[t] = c, !.got[t] = threads.cached[c]]
            /\ last' = Call("db[]", c, NONE, Ok(Number(threads.cached[c])))
       ELSE /\ threads' = [threads EXCEPT !.pc[t] = "building", !.col[t] = c, !.got[t] = 0]
            /\ last' = Call("db[].miss", c, NONE, Ok(NoValue))
    /\ UNCHANGED <<backend, disk, db, file, paths, it>>

\* CollectionStore(...) and the assignment to the cache.
GetBuild(t) ==
    /\ threads.pc[t] = "building"
    /\ LET c == threads.col[t]
           n == threads.made[c] + 1
       IN  IF InitRaises(c)
           THEN /\ threads' = [threads EXCEPT !.pc[t] = "idle"]
                /\ last' = Call("db[]", c, NONE, Raise("NodeError"))
                /\ UNCHANGED <<disk, db>>
           ELSE /\ disk' = [disk EXCEPT ![c].exists = TRUE]
                /\ db' = [db EXCEPT !.collections[c] = NewCollectionStore(c)]
                /\ threads' = [threads EXCEPT !.made[c] = n, !.cached[c] = n,
                                              !.pc[t] = IF backend = "sqlite" THEN "returning" ELSE "idle",
                                              !.got[t] = IF backend = "sqlite" THEN 0 ELSE n]
                /\ last' = Call(IF backend = "sqlite" THEN "db[].built" ELSE "db[]", c, NONE, Ok(Number(n)))
    /\ UNCHANGED <<backend, file, paths, it>>

\* sqlite: `return self._collections[col_name]`
GetReturn(t) ==
    /\ threads.pc[t] = "returning"
    /\ LET c == threads.col[t]
       IN  /\ threads' = [threads EXCEPT !.pc[t] = "idle", !.got[t] = threads.cached[c]]
           /\ last' = Call("db[]", c, NONE, Ok(Number(threads.cached[c])))
    /\ UNCHANGED <<backend, disk, db, file, paths, it>>

NextThreads ==
    \/ ~db.open /\ ServerGetItem
    \/ \E t \in Threads, c \in ColNames : GetCheck(t, c)
    \/ \E t \in Threads : GetBuild(t)
    \/ \E t \in Threads : GetReturn(t)

SpecThreads == Init /\ [][NextThreads]_vars

(***************************************************************************)
(* C30.  However the first accesses of several threads interleave, a       *)
(* DatabaseStore constructs at most one CollectionStore for a name, and    *)
(* the threads that asked for the same name hold the same one.             *)
(***************************************************************************)
C30_OneHandlePerName ==
    /\ \A c \in ColNames : threads.made[c] <= 1
    /\ \A t \in Threads, u \in Threads :
          (/\ threads.got[t] # 0 /\ threads.got[u] # 0
           /\ threads.col[t] = threads.col[u])
            => threads.got[t] = threads.got[u]

(***************************************************************************)
(* Coming back to a collection: the ServerStore is closed, a new one is    *)
(* opened on the same location, and server[db][c] is evaluated again, that *)
(* is Reopen, ServerGetItem and DbGetItem(c) one after the other.  Every   *)
(* Python object is new; the CollectionStore is constructed from what the  *)
(* medium holds.                                                           *)
(***************************************************************************)
Reaccess(c) ==
    /\ db.open /\ file = "open"
    /\ IF InitRaises(c)
       THEN /\ db' = [open |-> TRUE, collections |-> NoCollections]
            /\ last' = Call("reaccess", c, NONE, Raise("NodeError"))
            /\ UNCHANGED disk
       ELSE /\ disk' = [disk EXCEPT ![c].exists = TRUE]
            /\ db' = [open |-> TRUE,
                      collections |-> [NoCollections EXCEPT ![c] = NewCollectionStore(c)]]
            /\ last' = Call("reaccess", c, NONE, Ok(NoValue))
    /\ UNCHANGED <<backend, side>>

NextReopen ==
    \/ ServerGetItem
    \/ \E c \in ColNames : DbGetItem(c)
    \/ \E c \in ColNames : Create(c)
    \/ \E c \in ColNames : Drop(c)
    \/ \E c \in ColNames : Reaccess(c)
    \/ \E c \in ColNames, key \in CallerKeys, val \in Docs : SetItem(c, key, val)
    \/ \E c \in ColNames, key \in CallerKeys : DelItem(c, key)

SpecReopen == Init /\ [][NextReopen]_vars

(***************************************************************************)
(* C32.  The force-created flag survives reopening: a collection that was  *)
(* created with create(), holds no document and no index and was not       *)
(* dropped, is still created, and its database still contained in the      *)
(* server, when it is accessed again through a new ServerStore on the same *)
(* location.                                                               *)
(***************************************************************************)
C32_FlagSurvivesReopen ==
    [][\A c \in ColNames :
        (/\ Attached(c) /\ Handle(c).path = c
         /\ ForceCreatedOf(Handle(c))
         /\ DocumentsOf(Handle(c)) = <<>> /\ IndexesOf(Handle(c)) = <<>>
         /\ last'.op = "reaccess" /\ last'.col = c)
          => /\ last'.res.kind = "ok"
             /\ (Attached(c) /\ is_created(Handle(c)))'
             /\ server_contains']_vars

(***************************************************************************)
(* Collection._update on one existing document (multi = False).  The       *)
(* document whose _id is key is read from the store (a decoded copy), a    *)
(* deep copy of it is kept as the snapshot, and the copy read is modified  *)
(* in place to `changed`.  What happens then is the outcome:               *)
(*   "altered_id"  the _id differs from the snapshot's: the snapshot is    *)
(*                 written under its _id and WriteError is raised;         *)
(*   "duplicate"   the changed document is written, _ensure_uniques (of    *)
(*                 the base class) raises DuplicateKeyError, the snapshot  *)
(*                 is written under its _id and the error is raised again; *)
(*   "accepted"    the changed document is written.                        *)
(* The result of a rejected update carries the snapshot.                   *)
(***************************************************************************)
Outcomes == {"altered_id", "duplicate", "accepted"}

Snapshot(c, key) == _decode_doc(backend, Lookup(DocumentsOf(Handle(c)), _encode_key(backend, key)))

\* The document mapping after `self._store[key] = val` on rows.
StoreSet(rows, key, val) == SetItemRows(rows, _encode_key(backend, key), val)

\* The update without the write of the snapshot after DuplicateKeyError.
UpdateRows_without_rollback(c, key, changed, outcome) ==
    LET rows == DocumentsOf(Handle(c))
        original_document_snapshot == Snapshot(c, key)
    IN  CASE outcome = "altered_id" -> StoreSet(rows, key, original_document_snapshot)
          [] outcome = "duplicate" -> StoreSet(rows, key, changed)
          [] outcome = "accepted" -> StoreSet(rows, key, changed)

\* What the update leaves in the document mapping.
UpdateRows(c, key, changed, outcome) ==
    LET rows == DocumentsOf(Handle(c))
        original_document_snapshot == Snapshot(c, key)
    IN  CASE outcome = "altered_id" -> StoreSet(rows, key, original_document_snapshot)
          [] outcome = "duplicate" ->
                StoreSet(StoreSet(rows, key, changed), key, original_document_snapshot)
          [] outcome = "accepted" -> StoreSet(rows, key, changed)

UpdateResult(c, key, changed, outcome) ==
    CASE outcome = "altered_id" -> Result("WriteError", Snapshot(c, key))
      [] outcome = "duplicate" -> Result("DuplicateKeyError", Snapshot(c, key))
      [] outcome = "accepted" -> Ok(changed)

Update(c, key, changed, outcome) ==
    /\ Attached(c) /\ Stored(c, key)
    /\ changed # Snapshot(c, key)
    /\ LET h == Handle(c)
           rows == UpdateRows(c, key, changed, outcome)
       IN  IF backend = "sqlite"
           THEN LET h2 == [h EXCEPT !.documents = rows]
                IN  /\ db' = [db EXCEPT !.collections[c] = h2]
                    /\ disk' = Committed(disk, h2)
           ELSE /\ disk' = [disk EXCEPT ![h.path].documents = rows]
                /\ UNCHANGED db
    /\ last' = Call("update", c, key, UpdateResult(c, key, changed, outcome))
    /\ UNCHANGED <<backend, side>>

NextUpdate ==
    \/ ServerGetItem
    \/ \E c \in ColNames : DbGetItem(c)
    \/ \E c \in ColNames, key \in CallerKeys, val \in Docs : SetItem(c, key, val)
    \/ \E c \in ColNames, key \in CallerKeys : DelItem(c, key)
    \/ \E c \in ColNames, key \in CallerKeys, changed \in Docs, outcome \in Outcomes :
          Update(c, key, changed, outcome)

SpecUpdate == Init /\ [][NextUpdate]_vars

Rejections == {"WriteError", "DuplicateKeyError"}

(***************************************************************************)
(* C33.  An update that is rejected, because it altered the _id or because *)
(* it broke a unique index, raises and leaves the store as it was: the     *)
(* entry of the document's _id holds the snapshot, every other entry holds *)
(* what it held, no entry has been added, and the indexes are the same.    *)
(***************************************************************************)
C33_UpdateRollsBack ==
    [][\A c \in ColNames, key \in CallerKeys :
        (/\ last'.op = "update" /\ last'.col = c /\ last'.key = key
         /\ last'.res.kind \in Rejections
         /\ Attached(c) /\ Stored(c, key))
          => /\ Stored(c, key)'
             /\ Snapshot(c, key)' = Snapshot(c, key)
             /\ Ids(DocumentsOf(Handle(c)))' = Ids(DocumentsOf(Handle(c)))
             /\ \A id \in Ids(DocumentsOf(Handle(c))) :
                   Lookup(DocumentsOf(Handle(c)), id)' = Lookup(DocumentsOf(Handle(c)), id)
             /\ IndexesOf(Handle(c))' = IndexesOf(Handle(c))]_vars

\* An update of one of two documents has been rejected for a duplicate key,
\* and the entry holds the snapshot.
C33_Witness ==
    \E c \in ColNames :
        /\ last.op = "update" /\ last.col = c /\ last.res.kind = "DuplicateKeyError"
        /\ Attached(c) /\ Stored(c, last.key) /\ len(c) = 2
        /\ Snapshot(c, last.key) = last.res.value

(***************************************************************************)
(* A set that fails.  Every __setitem__ encodes the document first, so a   *)
(* document that cannot be encoded raises before anything is touched.      *)
(* When the statement that writes the content of the record raises:        *)
(*   sqlite    `with self._connection` rolls the transaction back, and     *)
(*             with it every delete made since the last commit;            *)
(*   h5py      the dataset of a present key keeps its content; for an      *)
(*             absent key create_dataset has already made a dataset, which *)
(*             stays, without content;                                     *)
(*   pytables  remove_node has removed the old node and new_node has made  *)
(*             a new one, which stays, without content.                    *)
(***************************************************************************)
Faults == {"encode", "write"}

\* A record that was created and whose content was never written.
Blank == [blank |-> TRUE]

\* The document mapping that a set whose write raises leaves behind.
FailedWriteRows(h, id) ==
    CASE backend = "sqlite" -> disk[h.path].documents
      [] backend = "h5py" ->
            IF id \in Ids(DocumentsOf(h)) THEN DocumentsOf(h)
            ELSE Append(DocumentsOf(h), [id |-> id, doc |-> Blank])
      [] backend = "pytables" -> ReplaceRow(DocumentsOf(h), id, Blank)

SetItemFails(c, key, val, fault) ==
    /\ Attached(c)
    /\ Room(Handle(c), DocumentsOf(Handle(c)), _encode_key(backend, key))
    /\ LET h == Handle(c)
           rows == IF fault = "encode" THEN DocumentsOf(h)
                   ELSE FailedWriteRows(h, _encode_key(backend, key))
       IN  IF backend = "sqlite"
           THEN /\ db' = [db EXCEPT !.collections[c] =
                            IF fault = "encode" THEN h
                            ELSE [h EXCEPT !.documents = rows, !.indexes = disk[h.path].indexes]]
                /\ UNCHANGED disk
           ELSE /\ disk' = [disk EXCEPT ![h.path].documents = rows]
                /\ UNCHANGED db
    /\ last' = Call("set", c, key,
                    IF fault = "encode" THEN Raise("InvalidDocument") ELSE Raise("WriteFailed"))
    /\ UNCHANGED <<backend, side>>

NextFault ==
    \/ ServerGetItem
    \/ \E c \in ColNames : DbGetItem(c)
    \/ \E c \in ColNames, key \in CallerKeys, val \in Docs : SetItem(c, key, val)
    \/ \E c \in ColNames, key \in CallerKeys : DelItem(c, key)
    \/ \E c \in ColNames, key \in CallerKeys, val \in Docs, fault \in Faults :
          SetItemFails(c, key, val, fault)

SpecFault == Init /\ [][NextFault]_vars

(***************************************************************************)
(* C31.  A set that fails leaves the mapping unchanged: the entry of a key *)
(* that held a value still holds that value, and the number of entries is  *)
(* the same.                                                               *)
(***************************************************************************)
C31_FailedSetChangesNothing ==
    [][\A c \in ColNames, key \in CallerKeys :
        (/\ Attached(c)
         /\ last'.op = "set" /\ last'.col = c /\ last'.key = key
         /\ last'.res.kind # "ok")
          => /\ len(c)' = len(c)
             /\ Stored(c, key)
                   => /\ Stored(c, key)'
                      /\ Lookup(DocumentsOf(Handle(c)), _encode_key(backend, key))'
                            = Lookup(DocumentsOf(Handle(c)), _encode_key(backend, key))]_vars

====
